---- MODULE Spec2Model ----
(***************************************************************************)
(* FreshworksService (src/app/services/freshworks_service.py): the paged   *)
(* collection of contacts and deals and the per-page enrichment of deals.  *)
(*                                                                         *)
(* A JSON object is a record whose absent keys hold Missing.  A value that *)
(* may have several Python types is tagged by its field name: Num(3) is    *)
(* the number 3, Str("3") the string "3", List(s) the list s.  Record     *)
(* identifiers (user ids, owner ids, stage ids) exceed 32 bits, so         *)
(* Id(hi, lo) holds the Python int hi * 10^6 + lo in two decimal limbs,    *)
(* 0 <= lo < 10^6.                                                         *)
(***************************************************************************)
EXTENDS Integers, Sequences, FiniteSets, TLC

VARIABLES
    op,         \* the call in progress: "none", "contacts", "deals", "page"
    max_pages,  \* the max_pages argument of the paginated call
    page,       \* the loop's page counter
    all_items,  \* all_contacts / all_deals, the accumulating list
    pc,         \* "idle", "loop", "returned", "raised"
    ret,        \* the list a paginated call returned (when pc = "returned")
    exc,        \* the exception that left the call (when pc = "raised")
    result,     \* the dict the last get_all_contacts / get_all_deals returned
    log         \* the requests _make_request served, oldest first, each with its reply

vars == <<op, max_pages, page, all_items, pc, ret, exc, result, log>>

----------------------------------------------------------------------------
(* Bounds of the model *)

MaxMaxPages == 3
MaxTotalPages == 3
MaxDeals == 2
MaxUsers == 2

----------------------------------------------------------------------------
(* Values *)

Missing == [missing |-> TRUE]
Num(n) == [int |-> n]
Str(s) == [str |-> s]
List(s) == [list |-> s]
Id(h, l) == [hi |-> h, lo |-> l]

IsNum(v) == DOMAIN v = {"int"}

\* dict.get(key, default) on a key whose value is v (Missing when absent)
GetOr(v, default) == IF v = Missing THEN default ELSE v

\* Python truth of an identifier read with dict.get(key): None (absent) and 0 are false
Truthy(v) == v # Missing /\ ~(v.hi = 0 /\ v.lo = 0)

SeqsUpTo(S, n) == UNION {[1..k -> S] : k \in 0..n}

RECURSIVE Concat(_)
Concat(ss) == IF ss = <<>> THEN <<>> ELSE Head(ss) \o Concat(Tail(ss))

----------------------------------------------------------------------------
(* _get_stage_name *)

Digit(d) ==
    CASE d = 0 -> "0" [] d = 1 -> "1" [] d = 2 -> "2" [] d = 3 -> "3" [] d = 4 -> "4"
      [] d = 5 -> "5" [] d = 6 -> "6" [] d = 7 -> "7" [] d = 8 -> "8" [] d = 9 -> "9"

\* str(n) for a natural number n
RECURSIVE Decimal(_)
Decimal(n) == IF n < 10 THEN Digit(n) ELSE Decimal(n \div 10) \o Digit(n % 10)

\* the low limb written with exactly k digits
RECURSIVE Padded(_, _)
Padded(n, k) == IF k = 0 THEN "" ELSE Padded(n \div 10, k - 1) \o Digit(n % 10)

\* str(stage_id) inside the f-string
IdDecimal(v) == IF v.hi = 0 THEN Decimal(v.lo) ELSE Decimal(v.hi) \o Padded(v.lo, 6)

stage_map ==
    { <<Id(402001, 815652), "Closed Won">>,
      <<Id(402001, 815651), "Closed Lost">>,
      <<Id(402001, 821236), "Account Not Funded">>,
      <<Id(402001, 842536), "Account Funded">>,
      <<Id(402001, 815650), "KYC Created">>,
      <<Id(402001, 815649), "Proposal Sent">>,
      <<Id(402001, 815648), "Qualified">>,
      <<Id(402001, 815647), "Contact Made">>,
      <<Id(402001, 815646), "New Lead">> }

StageFallback(stage_id) == "Stage " \o IdDecimal(stage_id)

_get_stage_name(stage_id) ==
    IF \E e \in stage_map : e[1] = stage_id
    THEN (CHOOSE e \in stage_map : e[1] = stage_id)[2]
    ELSE StageFallback(stage_id)

----------------------------------------------------------------------------
(* get_all_deals: the enrichment of one page *)

\* a slip: the first user of an id kept (setdefault), not the last
RECURSIVE owner_map_first(_)
owner_map_first(users) ==
    IF users = <<>> THEN <<>>
    ELSE LET user == Head(users)
         IN (user.id :> user) @@ owner_map_first(Tail(users))

\* {user["id"]: user for user in users}: a later user overwrites an earlier one
RECURSIVE owner_map(_)
owner_map(users) ==
    IF users = <<>> THEN <<>>
    ELSE LET n == Len(users)
             user == users[n]
         IN (user.id :> user) @@ owner_map(SubSeq(users, 1, n - 1))

\* if owner_id and owner_id in owner_map
OwnerFound(owner_id, omap) == Truthy(owner_id) /\ owner_id \in DOMAIN omap

\* if stage_id
StagePresent(stage_id) == Truthy(stage_id)

\* a slip: the owner_id taken out of the deal (pop) when its owner is attached
EnrichDealPopsOwnerId(deal, omap) ==
    LET owner_id == deal.owner_id
        withOwner == IF OwnerFound(owner_id, omap)
                     THEN [deal EXCEPT !.owner = omap[owner_id], !.owner_id = Missing]
                     ELSE deal
        stage_id == deal.deal_stage_id
    IN IF StagePresent(stage_id)
       THEN [withOwner EXCEPT !.deal_stage =
                [id |-> stage_id, name |-> _get_stage_name(stage_id)]]
       ELSE withOwner

\* the body of "for deal in deals"
EnrichDeal(deal, omap) ==
    LET owner_id == deal.owner_id
        withOwner == IF OwnerFound(owner_id, omap)
                     THEN [deal EXCEPT !.owner = omap[owner_id]]
                     ELSE deal
        stage_id == deal.deal_stage_id
    IN IF StagePresent(stage_id)
       THEN [withOwner EXCEPT !.deal_stage =
                [id |-> stage_id, name |-> _get_stage_name(stage_id)]]
       ELSE withOwner

\* what get_all_deals returns for the reply _make_request parsed
EnrichPage(reply) ==
    LET users == GetOr(reply.users, List(<<>>)).list
        deals == GetOr(reply.deals, List(<<>>)).list
        omap == owner_map(users)
    IN IF reply.deals = Missing THEN reply
       ELSE [reply EXCEPT !.deals =
                List([i \in 1..Len(deals) |-> EnrichDeal(deals[i], omap)])]

----------------------------------------------------------------------------
(* _make_request: what the server may answer *)

\* httpx raises on a network failure, raise_for_status on a non-2xx status
Failures == {[error |-> "ConnectError"], [error |-> "HTTPStatusError"]}
IsFailure(reply) == "error" \in DOMAIN reply

\* a slip: the failure wrapped in an exception of the service's own
RaisedWrapped(reply) == "FreshworksError"

\* the exception that leaves _make_request, and with no handler above it, the call
RaisedBy(reply) == reply.error

TotalPagesValues == {Missing, Str("3")} \cup {Num(n) : n \in 0..MaxTotalPages}
Metas == {Missing} \cup {[total_pages |-> t] : t \in TotalPagesValues}

\* the lists of at most two items of S
PageLists(S) == {<<>>} \cup {<<x>> : x \in S} \cup {<<x, y>> : x \in S, y \in S}

Contacts == {[name |-> "a"], [name |-> "b"]}
ContactLists == {Missing} \cup {List(s) : s \in PageLists(Contacts)}
ContactReplies == {[contacts |-> c, meta |-> m] : c \in ContactLists, m \in Metas} \cup Failures

\* users and deals as the deals view sideloads them
UserA == [id |-> Id(0, 5), name |-> "A"]
UserB == [id |-> Id(0, 5), name |-> "B"]
UserZ == [id |-> Id(0, 0), name |-> "Z"]
Users == {UserA, UserB, UserZ}

RawDeal(o, s) ==
    [name |-> "deal", owner_id |-> o, deal_stage_id |-> s, owner |-> Missing, deal_stage |-> Missing]

ClosedWonId == Id(402001, 815652)
OwnerIdValues == {Missing, Id(0, 0), Id(0, 5), Id(0, 7)}
StageIdValues == {Missing, Id(0, 0), Id(0, 999), ClosedWonId}
RawDeals == {RawDeal(o, s) : o \in OwnerIdValues, s \in StageIdValues}

\* one page of the deals view, for a single get_all_deals call
DealLists == {Missing} \cup {List(l) : l \in SeqsUpTo(RawDeals, MaxDeals)}
UserLists == {Missing} \cup {List(l) : l \in SeqsUpTo(Users, MaxUsers)}
DealReply(d, u, m) == [deals |-> d, users |-> u, meta |-> m]

\* the pages a paginated walk of the deals view is given
OwnedDeal == RawDeal(Id(0, 5), ClosedWonId)
PlainDeal == RawDeal(Missing, Id(0, 999))
PagedDealLists == {Missing, List(<<>>), List(<<OwnedDeal>>), List(<<OwnedDeal, PlainDeal>>)}
PagedUserLists == {Missing, List(<<UserA>>), List(<<UserA, UserB>>)}
PagedDealReplies ==
    {[deals |-> d, users |-> u, meta |-> m] :
        d \in PagedDealLists, u \in PagedUserLists, m \in Metas} \cup Failures

----------------------------------------------------------------------------
(* The paginated calls *)

\* a slip: "if contacts is None", which the .get default never gives
NoItemsIsNone(items) == FALSE

\* if not contacts: break
NoItems(items) == items = <<>>

\* a slip: the new page put in front of the earlier ones
ExtendFront(all, items) == items \o all

\* all_contacts.extend(contacts)
Extend(all, items) == all \o items

\* meta = result.get("meta", {}); total_pages = meta.get("total_pages", 1)
TotalPages(res) ==
    LET meta == GetOr(res.meta, [total_pages |-> Missing])
    IN GetOr(meta.total_pages, Num(1))

\* a slip: page > total_pages, one page too many
LastPageStrict(p, total_pages) == p > total_pages.int

\* page >= total_pages, on numbers
LastPage(p, total_pages) == p >= total_pages.int

\* a slip: the counter taken to start at 0
LoopGuardFromZero(p, maxp) == p <= maxp + 1

\* while page <= max_pages
LoopGuard(p, maxp) == p <= maxp

Init ==
    /\ op = "none"
    /\ max_pages = 0
    /\ page = 0
    /\ all_items = <<>>
    /\ pc = "idle"
    /\ ret = <<>>
    /\ exc = "none"
    /\ result = Missing
    /\ log = <<>>

\* get_all_contacts_paginated(max_pages): all_contacts = [], page = 1
StartContacts ==
    /\ pc = "idle"
    /\ op' = "contacts"
    /\ max_pages' \in 0..MaxMaxPages
    /\ page' = 1
    /\ all_items' = <<>>
    /\ pc' = "loop"
    /\ UNCHANGED <<ret, exc, result, log>>

\* one pass of the loop of get_all_contacts_paginated, the request answered by reply
ContactsStep(reply) ==
    /\ log' = Append(log, [endpoint |-> "contacts", page |-> page, reply |-> reply])
    /\ UNCHANGED <<op, max_pages>>
    /\ IF IsFailure(reply)
       THEN /\ pc' = "raised"
            /\ exc' = RaisedBy(reply)
            /\ UNCHANGED <<page, all_items, ret, result>>
       ELSE LET contacts == GetOr(reply.contacts, List(<<>>)).list
                total_pages == TotalPages(reply)
            IN /\ result' = reply
               /\ IF NoItems(contacts)
                  THEN /\ pc' = "returned"
                       /\ ret' = all_items
                       /\ UNCHANGED <<page, all_items, exc>>
                  ELSE /\ all_items' = Extend(all_items, contacts)
                       /\ IF ~IsNum(total_pages)
                          THEN /\ pc' = "raised"
                               /\ exc' = "TypeError"
                               /\ UNCHANGED <<page, ret>>
                          ELSE IF LastPage(page, total_pages)
                          THEN /\ pc' = "returned"
                               /\ ret' = all_items'
                               /\ UNCHANGED <<page, exc>>
                          ELSE /\ page' = page + 1
                               /\ UNCHANGED <<pc, ret, exc>>

\* the loop of get_all_contacts_paginated while page <= max_pages, whatever the server answers
ContactsPage ==
    /\ pc = "loop"
    /\ op = "contacts"
    /\ LoopGuard(page, max_pages)
    /\ \E reply \in ContactReplies : ContactsStep(reply)

\* get_all_deals_paginated(max_pages): all_deals = [], page = 1
StartDeals ==
    /\ pc = "idle"
    /\ op' = "deals"
    /\ max_pages' \in 0..MaxMaxPages
    /\ page' = 1
    /\ all_items' = <<>>
    /\ pc' = "loop"
    /\ UNCHANGED <<ret, exc, result, log>>

\* one pass of the loop of get_all_deals_paginated, the request answered by reply
DealsStep(reply) ==
    /\ log' = Append(log, [endpoint |-> "deals", page |-> page, reply |-> reply])
    /\ UNCHANGED <<op, max_pages>>
    /\ IF IsFailure(reply)
       THEN /\ pc' = "raised"
            /\ exc' = RaisedBy(reply)
            /\ UNCHANGED <<page, all_items, ret, result>>
       ELSE LET res == EnrichPage(reply)
                deals == GetOr(res.deals, List(<<>>)).list
                total_pages == TotalPages(res)
            IN /\ result' = res
               /\ IF NoItems(deals)
                  THEN /\ pc' = "returned"
                       /\ ret' = all_items
                       /\ UNCHANGED <<page, all_items, exc>>
                  ELSE /\ all_items' = Extend(all_items, deals)
                       /\ IF ~IsNum(total_pages)
                          THEN /\ pc' = "raised"
                               /\ exc' = "TypeError"
                               /\ UNCHANGED <<page, ret>>
                          ELSE IF LastPage(page, total_pages)
                          THEN /\ pc' = "returned"
                               /\ ret' = all_items'
                               /\ UNCHANGED <<page, exc>>
                          ELSE /\ page' = page + 1
                               /\ UNCHANGED <<pc, ret, exc>>

\* the loop of get_all_deals_paginated while page <= max_pages, whatever the server answers
DealsPage ==
    /\ pc = "loop"
    /\ op = "deals"
    /\ LoopGuard(page, max_pages)
    /\ \E reply \in PagedDealReplies : DealsStep(reply)

\* the loop condition fails: return all_contacts / return all_deals
LoopExit ==
    /\ pc = "loop"
    /\ ~LoopGuard(page, max_pages)
    /\ pc' = "returned"
    /\ ret' = all_items
    /\ UNCHANGED <<op, max_pages, page, all_items, exc, result, log>>

\* what a single get_all_contacts / get_all_deals call leaves, res being what it returns
PageCall(endpoint, p, reply, res) ==
    /\ op' = "page"
    /\ page' = p
    /\ log' = Append(log, [endpoint |-> endpoint, page |-> p, reply |-> reply])
    /\ IF IsFailure(reply)
       THEN pc' = "raised" /\ exc' = RaisedBy(reply) /\ UNCHANGED result
       ELSE pc' = "returned" /\ result' = res /\ UNCHANGED exc
    /\ UNCHANGED <<max_pages, all_items, ret>>

\* a single get_all_contacts(page): the parsed reply, as it is
GetAllContacts ==
    /\ pc = "idle"
    /\ \E p \in {1, 2}, reply \in ContactReplies : PageCall("contacts", p, reply, reply)

\* a single get_all_deals(page): the parsed reply with its deals enriched
GetAllDeals ==
    /\ pc = "idle"
    /\ \E d \in DealLists, u \in UserLists, m \in {Missing, [total_pages |-> Num(1)]} :
          LET reply == DealReply(d, u, m)
          IN PageCall("deals", 1, reply, EnrichPage(reply))

\* a single get_all_deals(page) whose request fails
GetAllDealsFails ==
    /\ pc = "idle"
    /\ \E reply \in Failures : PageCall("deals", 1, reply, Missing)

\* the paginated calls
Next ==
    \/ StartContacts
    \/ ContactsPage
    \/ StartDeals
    \/ DealsPage
    \/ LoopExit

Spec == Init /\ [][Next]_vars

\* the single-page calls
NextPage ==
    \/ GetAllContacts
    \/ GetAllDeals
    \/ GetAllDealsFails

SpecPage == Init /\ [][NextPage]_vars

----------------------------------------------------------------------------
(* What the log says of a run *)

\* the page numbers requested, in request order
Fetched == [i \in 1..Len(log) |-> log[i].page]

\* the items the loop read from the page of log entry e (none from a failed request)
PageItems(e) ==
    IF IsFailure(e.reply) THEN <<>>
    ELSE IF e.endpoint = "contacts" THEN GetOr(e.reply.contacts, List(<<>>)).list
    ELSE GetOr(EnrichPage(e.reply).deals, List(<<>>)).list

\* the items of the first n requested pages, in request order
ItemsUpTo(n) == Concat([i \in 1..n |-> PageItems(log[i])])

\* the reply of log entry e is a page with items that reports total_pages = t
Reports(e, t) ==
    /\ ~IsFailure(e.reply)
    /\ PageItems(e) # <<>>
    /\ e.reply.meta # Missing
    /\ e.reply.meta.total_pages = Num(t)

\* the reply of log entry e is a page with items, after which the loop goes on
GoesOn(e) == \E t \in (e.page + 1)..(MaxTotalPages + 1) : Reports(e, t)

Paginated == op \in {"contacts", "deals"}

----------------------------------------------------------------------------
(* Claims *)

\* C1: a paginated call that returns, returns the items of the pages it fetched,
\* concatenated in fetch order, each page's order kept, nothing dropped, repeated
\* or deduplicated.
C1_ConcatenationInFetchOrder ==
    (Paginated /\ pc = "returned") =>
        /\ ret = ItemsUpTo(Len(log))
        /\ Fetched = [i \in 1..Len(log) |-> i]

\* C1 witness: a contacts call returned two pages of two different items each,
\* the second page repeating the first.
C1_Witness ==
    /\ op = "contacts" /\ pc = "returned" /\ Len(log) = 2
    /\ PageItems(log[1]) = <<[name |-> "a"], [name |-> "b"]>>
    /\ PageItems(log[2]) = <<[name |-> "a"], [name |-> "b"]>>
    /\ Len(ret) = 4

\* C2: when every page reports the same total_pages = T >= 1, has items, and
\* max_pages >= T, the call fetches pages 1..T once each in increasing order, never
\* page T+1, and returns the items of all T pages.
C2_FetchesExactlyTotalPages ==
    \A T \in 1..MaxTotalPages :
        (/\ Paginated
         /\ max_pages >= T
         /\ log # <<>>
         /\ \A i \in 1..Len(log) : Reports(log[i], T))
        => /\ Len(log) <= T
           /\ Fetched = [i \in 1..Len(log) |-> i]
           /\ exc = "none"
           /\ Len(log) = T => (pc = "returned" /\ ret = ItemsUpTo(T))
           /\ Len(log) < T => (pc = "loop" /\ page = Len(log) + 1)

\* C2 witness: total_pages = 3 on every page, two deals a page: three fetches, six deals.
C2_Witness ==
    /\ op = "deals" /\ pc = "returned" /\ max_pages >= 3
    /\ Len(log) = 3
    /\ \A i \in 1..3 : Reports(log[i], 3) /\ Len(PageItems(log[i])) = 2
    /\ Len(ret) = 6

\* C3: a paginated call never makes more than max_pages requests; with max_pages = 0
\* it returns the empty list without a request; and when max_pages pages were fetched
\* and each had items and said more pages follow, the call returns (no error) the
\* items of pages 1..max_pages.
C3_AtMostMaxPages ==
    Paginated =>
        /\ Len(log) <= max_pages
        /\ (max_pages = 0 /\ pc # "loop") => (pc = "returned" /\ ret = <<>> /\ log = <<>>)
        /\ (/\ max_pages >= 1
            /\ Len(log) = max_pages
            /\ \A i \in 1..Len(log) : GoesOn(log[i]))
           => /\ exc = "none"
              /\ pc = "loop" => (page > max_pages /\ ENABLED LoopExit)
              /\ pc = "returned" => (ret = ItemsUpTo(max_pages) /\ Len(ret) >= max_pages)
              /\ pc \in {"loop", "returned"}

\* C3 witness: max_pages = 2, both pages have items and report total_pages = 3; the
\* call has returned the items of the two pages.
C3_Witness ==
    /\ op = "contacts" /\ pc = "returned" /\ max_pages = 2 /\ Len(log) = 2
    /\ Reports(log[1], 3) /\ Reports(log[2], 3)
    /\ ret = ItemsUpTo(2)

\* C4: the first page whose item list is empty or absent ends the collection whatever
\* its metadata says: it is the last request, the call has returned, and the result is
\* the items of the earlier pages (empty when it is page 1).
C4_EmptyPageEnds ==
    Paginated =>
        \A i \in 1..Len(log) :
            (~IsFailure(log[i].reply) /\ PageItems(log[i]) = <<>>)
            => /\ i = Len(log)
               /\ pc = "returned"
               /\ ret = ItemsUpTo(i - 1)
               /\ \A j \in 1..Len(log) : log[j].page <= log[i].page

\* C4 witness: page 1 is empty and reports total_pages = 3, max_pages allows more; the
\* call returned the empty list after that one request.
C4_Witness ==
    /\ op = "deals" /\ pc = "returned" /\ max_pages >= 2
    /\ Len(log) = 1
    /\ log[1].reply.deals = List(<<>>)
    /\ log[1].reply.meta = [total_pages |-> Num(3)]
    /\ ret = <<>>

\* C6: when the request for page k fails, that failure is what leaves the call, no
\* list is returned, page k is not requested again and no later page is requested.
C6_FailurePropagates ==
    Paginated =>
        \A k \in 1..Len(log) :
            IsFailure(log[k].reply)
            => /\ k = Len(log)
               /\ pc = "raised"
               /\ exc = log[k].reply.error
               /\ ret = <<>>
               /\ \A j \in 1..(k - 1) : log[j].page < log[k].page

\* C6 witness: page 1 was collected, the request for page 2 failed on the HTTP status.
C6_Witness ==
    /\ op = "contacts" /\ pc = "raised" /\ Len(log) = 2
    /\ all_items # <<>>
    /\ log[2].reply = [error |-> "HTTPStatusError"]
    /\ exc = "HTTPStatusError"

\* C5: a page with items whose metadata is missing, or whose total_pages is missing
\* or not a number, is no error: it counts as the last page, and the call returns all
\* the items up to and including it.
C5_MalformedMetadataStops ==
    Paginated =>
        \A i \in 1..Len(log) :
            LET e == log[i]
            IN (/\ ~IsFailure(e.reply)
                /\ PageItems(e) # <<>>
                /\ \/ e.reply.meta = Missing
                   \/ e.reply.meta.total_pages = Missing
                   \/ ~IsNum(e.reply.meta.total_pages))
               => /\ i = Len(log)
                  /\ pc = "returned"
                  /\ exc = "none"
                  /\ ret = ItemsUpTo(i)

\* The part of C5 the code keeps: missing metadata or a missing total_pages.
C5_MissingMetadataStops ==
    Paginated =>
        \A i \in 1..Len(log) :
            LET e == log[i]
            IN (/\ ~IsFailure(e.reply)
                /\ PageItems(e) # <<>>
                /\ \/ e.reply.meta = Missing
                   \/ e.reply.meta.total_pages = Missing)
               => /\ i = Len(log)
                  /\ pc = "returned"
                  /\ exc = "none"
                  /\ ret = ItemsUpTo(i)

----------------------------------------------------------------------------
(* Claims on a single page *)

\* a get_all_deals call returned the enrichment of a reply that has a deals list
DealsEnriched ==
    /\ op = "page" /\ pc = "returned" /\ Len(log) = 1
    /\ log[1].endpoint = "deals"
    /\ log[1].reply.deals # Missing

RawDealsOf(reply) == GetOr(reply.deals, List(<<>>)).list
UsersOf(reply) == GetOr(reply.users, List(<<>>)).list

\* the places in users of the users whose id is oid
Matches(users, oid) == {k \in 1..Len(users) : users[k].id = oid}

Last(S) == CHOOSE k \in S : \A m \in S : m <= k

\* C7: after get_all_deals, a deal whose owner_id (any identifier, 0 included) is the
\* id of a user of the page has that user record as its owner; a deal whose owner_id
\* is absent or matches no user has no owner field.
C7_OwnerAttached ==
    DealsEnriched =>
        LET raw == RawDealsOf(log[1].reply)
            users == UsersOf(log[1].reply)
            out == result.deals.list
        IN \A j \in 1..Len(raw) :
              LET oid == raw[j].owner_id
              IN IF oid # Missing /\ Matches(users, oid) # {}
                 THEN \E k \in Matches(users, oid) : out[j].owner = users[k]
                 ELSE out[j].owner = Missing

\* the name C8 gives each stage identifier the pages carry
ClaimedStageName(stage_id) ==
    CASE stage_id = ClosedWonId -> "Closed Won"
      [] stage_id = Id(0, 999) -> "Stage 999"
      [] stage_id = Id(0, 0) -> "Stage 0"

\* C8: after get_all_deals, a deal whose deal_stage_id is present, 0 included, has
\* deal_stage = {id, name}, the name from the stage table or "Stage <id>"; a deal
\* without deal_stage_id has no deal_stage field.
C8_StageAttached ==
    DealsEnriched =>
        LET raw == RawDealsOf(log[1].reply)
            out == result.deals.list
        IN \A j \in 1..Len(raw) :
              LET sid == raw[j].deal_stage_id
              IN IF sid # Missing
                 THEN out[j].deal_stage = [id |-> sid, name |-> ClaimedStageName(sid)]
                 ELSE out[j].deal_stage = Missing

\* C10: get_all_deals changes nothing but the owner and deal_stage of the deals: as
\* many deals in the same order, their other fields as fetched, users and meta as
\* fetched; get_all_contacts returns the reply as fetched.
C10_EnrichmentFrame ==
    (op = "page" /\ pc = "returned") =>
        LET reply == log[1].reply
        IN IF log[1].endpoint = "contacts" THEN result = reply
           ELSE /\ result.users = reply.users
                /\ result.meta = reply.meta
                /\ (reply.deals = Missing) = (result.deals = Missing)
                /\ reply.deals # Missing =>
                     LET raw == reply.deals.list
                         out == result.deals.list
                     IN /\ Len(out) = Len(raw)
                        /\ \A j \in 1..Len(raw) :
                              [out[j] EXCEPT !.owner = Missing, !.deal_stage = Missing] = raw[j]

\* C10 witness: a page of two deals; the first got its owner and its stage, the second
\* has neither an owner_id nor a stage; both keep their place and their other fields.
C10_Witness ==
    /\ DealsEnriched
    /\ log[1].reply.deals = List(<<RawDeal(Id(0, 5), ClosedWonId), RawDeal(Missing, Missing)>>)
    /\ log[1].reply.users = List(<<UserA>>)
    /\ result.deals.list[1].owner = UserA
    /\ result.deals.list[1].deal_stage = [id |-> ClosedWonId, name |-> "Closed Won"]
    /\ result.deals.list[1].owner_id = Id(0, 5)
    /\ result.deals.list[2] = RawDeal(Missing, Missing)

----------------------------------------------------------------------------
(* Claims on the deals of a paginated call *)

\* C9: in get_all_deals_paginated a deal gets its owner only from the users of its own
\* page, whatever the other pages carry, and of two users of that page with the same
\* id the later in the list is the one attached.
C9_OwnerFromOwnPage ==
    op = "deals" =>
        \A i \in 1..Len(log) :
            ~IsFailure(log[i].reply) =>
                LET raw == RawDealsOf(log[i].reply)
                    users == UsersOf(log[i].reply)
                    off == Len(ItemsUpTo(i - 1))
                IN /\ Len(all_items) >= off + Len(raw)
                   /\ \A j \in 1..Len(raw) :
                        LET deal == all_items[off + j]
                            found == Matches(users, raw[j].owner_id)
                        IN /\ deal.owner # Missing =>
                                (found # {} /\ deal.owner = users[Last(found)])
                           /\ found = {} => deal.owner = Missing

\* C9 witness: page 1 carries users A and B of one id and a deal of that owner, which
\* got B; page 2 carries the same deal and no users, and its deal got no owner.
C9_Witness ==
    /\ op = "deals" /\ Len(log) = 2 /\ Len(all_items) >= 2
    /\ log[1].reply.users = List(<<UserA, UserB>>)
    /\ log[1].reply.deals = List(<<OwnedDeal>>)
    /\ log[2].reply.users = Missing
    /\ log[2].reply.deals = List(<<OwnedDeal>>)
    /\ all_items[1].owner = UserB
    /\ all_items[2].owner = Missing
    /\ all_items[2].owner_id = UserA.id

====
